---- MODULE Spec2Model ----
(***************************************************************************)
(* NBA player report app (src/app.py, src/nba_app.py).                     *)
(*                                                                         *)
(* Conventions of the model                                                *)
(*  - Per-game numbers are fixed-point with one decimal, the precision     *)
(*    round(x, 1) leaves: the integer 251 stands for 25.1.  Percentages    *)
(*    (FG_PCT, FT_PCT) are fractions in thousandths: 456 stands for 0.456. *)
(*  - A Python value that may be a number or a string (report['pts'] is    *)
(*    25.1 or 'N/A') is a tagged record, PyNum(n) or PyStr(s).             *)
(*  - Non-ASCII text of the source is given by its ASCII part or by an     *)
(*    English rendering.                                                   *)
(*  - A position string is a sequence of one-character strings.            *)
(***************************************************************************)
EXTENDS Integers, Sequences, FiniteSets, TLC

VARIABLES
    cache,            \* st.cache_data of get_all_player_stats: season -> entry
    session_state,    \* st.session_state: report / player_name / season_input
    run,              \* what the last button handler did (observation only)
    target_stats_dict,\* SpecMatch: the target handed to get_closest_match
    all_players_df,   \* SpecMatch: the population get_all_player_stats gave
    closest,          \* SpecMatch: the outcome of get_closest_match
    stats,            \* SpecStyle: the dict handed to analyze_style
    style,            \* SpecStyle: analyze_style of src/app.py
    nb_style          \* SpecStyle: analyze_style of src/nba_app.py

vars == <<cache, session_state, run, target_stats_dict, all_players_df,
          closest, stats, style, nb_style>>

appVars   == <<cache, session_state, run>>
matchVars == <<target_stats_dict, all_players_df, closest>>
styleVars == <<stats, style, nb_style>>

---------------------------------------------------------------------------
(* Python values *)

Scale == 10
PctScale == 1000

PyNum(n) == [t |-> "num", n |-> n, s |-> ""]
PyStr(s) == [t |-> "str", n |-> 0, s |-> s]
NA == PyStr("N/A")

\* float(x): a number converts, the string 'N/A' raises ValueError.
FloatRaises(x) == x.t # "num"

Abs(x) == IF x < 0 THEN -x ELSE x

\* round(num / den, 1) in tenths of the unit of num/den, den > 0, num >= 0:
\* round-half-to-even on the exact quotient.
RoundDiv(num, den) ==
    LET q == num \div den
        r == num % den
    IN  IF 2 * r < den THEN q
        ELSE IF 2 * r > den THEN q + 1
        ELSE IF q % 2 = 0 THEN q ELSE q + 1

---------------------------------------------------------------------------
(* analyze_style *)

HIGH_PTS == 25
HIGH_AST == 8
HIGH_REB == 10

ELITE       == "Elite All-Around Star"
VOLUME      == "Volume Scorer"
PLAYMAKER   == "Playmaking Maestro"
ANCHOR      == "Rebounding/Defense Anchor"
ROLE_PLAYER == "Role Player"
\* src/nba_app.py keeps its initial label, which has no English gloss.
NB_ROLE_PLAYER == "Role Player (no gloss)"
INSUFFICIENT == "insufficient data, cannot analyze"

StyleOf(core, rating) == [core_style |-> core, simple_rating |-> rating]

analyze_style_volume_first(st) ==
    IF FloatRaises(st.pts) \/ FloatRaises(st.ast) \/ FloatRaises(st.reb)
    THEN StyleOf(INSUFFICIENT, "try a season that has data")
    ELSE LET pts == st.pts.n
             ast == st.ast.n
             reb == st.reb.n
         IN  IF pts >= HIGH_PTS * Scale
             THEN StyleOf(VOLUME, "top scorer")
             ELSE IF pts >= HIGH_PTS * Scale /\ ast >= 6 * Scale /\ reb >= 6 * Scale
             THEN StyleOf(ELITE, "scoring, playmaking and rebounding in one")
             ELSE IF ast >= HIGH_AST * Scale /\ pts >= 15 * Scale
             THEN StyleOf(PLAYMAKER, "pass-first organizer who can score")
             ELSE IF reb >= HIGH_REB * Scale /\ pts < 15 * Scale
             THEN StyleOf(ANCHOR, "interior defense and rebounding expert")
             ELSE StyleOf(ROLE_PLAYER, "a reliable rotation player")

analyze_style(st) ==
    IF FloatRaises(st.pts) \/ FloatRaises(st.ast) \/ FloatRaises(st.reb)
    THEN StyleOf(INSUFFICIENT, "try a season that has data")
    ELSE LET pts == st.pts.n
             ast == st.ast.n
             reb == st.reb.n
         IN  IF pts >= HIGH_PTS * Scale /\ ast >= 6 * Scale /\ reb >= 6 * Scale
             THEN StyleOf(ELITE, "scoring, playmaking and rebounding in one")
             ELSE IF pts >= HIGH_PTS * Scale
             THEN StyleOf(VOLUME, "top scorer")
             ELSE IF ast >= HIGH_AST * Scale /\ pts >= 15 * Scale
             THEN StyleOf(PLAYMAKER, "pass-first organizer who can score")
             ELSE IF reb >= HIGH_REB * Scale /\ pts < 15 * Scale
             THEN StyleOf(ANCHOR, "interior defense and rebounding expert")
             ELSE StyleOf(ROLE_PLAYER, "a reliable rotation player")

\* src/nba_app.py: the same chain without the final else; the label set
\* before the chain stays when no rule matches.
nba_app_analyze_style(st) ==
    IF FloatRaises(st.pts) \/ FloatRaises(st.ast) \/ FloatRaises(st.reb)
    THEN StyleOf(INSUFFICIENT, "try a season that has data")
    ELSE LET pts == st.pts.n
             ast == st.ast.n
             reb == st.reb.n
         IN  IF pts >= HIGH_PTS * Scale /\ ast >= 6 * Scale /\ reb >= 6 * Scale
             THEN StyleOf(ELITE, "scoring, playmaking and rebounding in one")
             ELSE IF pts >= HIGH_PTS * Scale
             THEN StyleOf(VOLUME, "top scorer")
             ELSE IF ast >= HIGH_AST * Scale /\ pts >= 15 * Scale
             THEN StyleOf(PLAYMAKER, "pass-first organizer who can score")
             ELSE IF reb >= HIGH_REB * Scale /\ pts < 15 * Scale
             THEN StyleOf(ANCHOR, "interior defense and rebounding expert")
             ELSE StyleOf(NB_ROLE_PLAYER, "reliable rotation player")

NoStyle == StyleOf("", "")

---------------------------------------------------------------------------
(* The reference population: get_all_player_stats *)

SIMILARITY_FEATURES == <<"PTS", "REB", "AST", "STL", "BLK", "FG_PCT", "FT_PCT">>

BASELINE_SEASON == "2023-24"

\* A cell of the PLAYER_POSITION column: a string (a sequence of characters),
\* a missing value (None/NaN), or the integer 0 that fillna(0) puts there.
PosStr(chars) == [t |-> "str", c |-> chars]
PosNone == [t |-> "none", c |-> <<>>]
PosZero == [t |-> "int", c |-> <<>>]

\* A DataFrame of league rows. season says which season's table the rows are
\* (the season argument the endpoint was called with); None is the value the
\* except branch returns.
DataFrame(season, rows) == [none |-> FALSE, season |-> season, rows |-> rows]
None_df == [none |-> TRUE, season |-> "", rows |-> <<>>]

\* df.fillna(0) on one row: a missing position becomes the integer 0.
fillna(row) ==
    IF row.PLAYER_POSITION.t = "none"
    THEN [row EXCEPT !.PLAYER_POSITION = PosZero]
    ELSE row

\* What the endpoint can answer for a season: an exception (network error,
\* missing column), or that season's table.
Response(failed, season, rows) == [failed |-> failed, season |-> season, rows |-> rows]

\* The uncached body of get_all_player_stats(season) on the endpoint's answer
\* to the request it makes.
get_all_player_stats_body(response) ==
    IF response.failed
    THEN None_df
    ELSE DataFrame(response.season,
                   [i \in 1..Len(response.rows) |-> fillna(response.rows[i])])

\* The season get_all_player_stats(season) asks the endpoint for.
RequestedSeason(season) == BASELINE_SEASON

---------------------------------------------------------------------------
(* get_closest_match: filtering *)

MODEL_FAILED == [tag |-> "MODEL_FAILED_DUE_TO_DATA_LIMIT", name |-> ""]
NO_QUALIFIED == [tag |-> "database too small, no qualified same-position match", name |-> ""]
MatchText(name) == [tag |-> "MATCH", name |-> name]
NoReturn == [tag |-> "", name |-> ""]

\* str.lower() on one character, over the alphabet of the position labels.
Lower(ch) ==
    CASE ch = "G" -> "g"
      [] ch = "F" -> "f"
      [] ch = "C" -> "c"
      [] ch = "P" -> "p"
      [] ch = "S" -> "s"
      [] OTHER -> ch

\* target_position[:1]
FirstChars(position) ==
    IF Len(position) = 0 THEN <<>> ELSE SubSeq(position, 1, 1)

\* Series.str.contains(pat, case=False) on one string cell, pat a literal.
ContainsIgnoreCase(chars, pat) ==
    \E off \in 0..(Len(chars) - Len(pat)) :
        \A j \in 1..Len(pat) : Lower(chars[off + j]) = Lower(pat[j])

\* The .str accessor refuses a non-empty column that holds no string at all
\* (every position missing, so every cell the integer 0): AttributeError.
StrAccessorRaises(rows) ==
    /\ Len(rows) > 0
    /\ \A i \in 1..Len(rows) : rows[i].PLAYER_POSITION.t # "str"

\* Line 177: the mask of the position filter; a non-string cell is NaN and
\* na=False turns it into False.
PositionMask(row, target) ==
    /\ row.PLAYER_POSITION.t = "str"
    /\ ContainsIgnoreCase(row.PLAYER_POSITION.c, FirstChars(target.position))

PRODUCTION_FLOOR == 5

KeepWithSelf(row, target) ==
    /\ PositionMask(row, target)
    /\ row.PTS >= PRODUCTION_FLOOR * Scale

KeepBelowFloor(row, target) ==
    /\ PositionMask(row, target)
    /\ row.PLAYER_NAME # target.name

KeepAnyPosition(row, target) ==
    /\ row.PLAYER_NAME # target.name
    /\ row.PTS >= PRODUCTION_FLOOR * Scale

\* Lines 177-179: a row stays in comparison_df.
Keep(row, target) ==
    /\ PositionMask(row, target)
    /\ row.PLAYER_NAME # target.name
    /\ row.PTS >= PRODUCTION_FLOOR * Scale

\* comparison_df as the indices of the kept rows, in the order of the table.
RECURSIVE KeptFrom(_, _, _)
KeptFrom(rows, target, i) ==
    IF i > Len(rows) THEN <<>>
    ELSE (IF Keep(rows[i], target) THEN <<i>> ELSE <<>>)
         \o KeptFrom(rows, target, i + 1)

comparison_df(rows, target) == KeptFrom(rows, target, 1)

---------------------------------------------------------------------------
(* get_closest_match: StandardScaler, cosine_similarity, sort_values        *)
(*                                                                         *)
(* Over the n rows of comparison_df, per feature f with column sum S and   *)
(* sum of squares Q:  mean = S/n,  variance = (n*Q - S*S)/n^2.             *)
(* StandardScaler divides by the standard deviation, and by 1 where the    *)
(* variance is 0.  The model keeps these as exact integers:                *)
(*    Centered = n*x - S          (n times x - mean)                       *)
(*    VarNum   = n*Q - S*S        (n^2 times the variance)                 *)
(* so a scaled value is Centered/sqrt(VarNum) where VarNum > 0, and 0 for  *)
(* every row of comparison_df where VarNum = 0.  The cosine of the target  *)
(* with row m is dot_m / (|t| * sqrt(normsq_m)); |t| is the same for every *)
(* row, so the order of the scores is the order of                         *)
(* sign(dot_m) * dot_m^2 / normsq_m, an exact rational.  The percentage    *)
(* round(score * 100, 2) of the returned text is not represented, and the  *)
(* rounding of floating point is not modelled.                             *)
(***************************************************************************)

RECURSIVE SumSeq(_)
SumSeq(s) == IF s = <<>> THEN 0 ELSE Head(s) + SumSeq(Tail(s))

RECURSIVE ProdSeq(_)
ProdSeq(s) == IF s = <<>> THEN 1 ELSE Head(s) * ProdSeq(Tail(s))

\* Lines 185-190: the target's value of a feature.
TargetFeature(target, f) ==
    CASE f = "PTS" -> target.pts.n
      [] f = "REB" -> target.reb.n
      [] f = "AST" -> target.ast.n
      [] f = "STL" -> target.stl.n
      [] f = "BLK" -> target.blk.n
      [] f = "FG_PCT" -> target.fg_pct_raw.n
      [] f = "FT_PCT" -> target.ft_pct_raw.n

\* StandardScaler.fit on comparison_df: per feature the column sum and VarNum.
fit(rows, cmp) ==
    [k \in 1..Len(SIMILARITY_FEATURES) |->
        LET f == SIMILARITY_FEATURES[k]
            S == SumSeq([m \in 1..Len(cmp) |-> rows[cmp[m]][f]])
            Q == SumSeq([m \in 1..Len(cmp) |-> rows[cmp[m]][f] * rows[cmp[m]][f]])
        IN  [sum |-> S, var |-> Len(cmp) * Q - S * S]]

\* n times (x - mean) for feature k.
Centered(scaler, n, k, x) == n * x - scaler[k].sum

\* The product of the non-zero VarNum: the common denominator of the sums.
Denom(scaler) ==
    ProdSeq([k \in 1..Len(scaler) |-> IF scaler[k].var > 0 THEN scaler[k].var ELSE 1])

\* Lines 195-199: the score of every row of comparison_df, in its order, up
\* to the positive factor shared by all rows.
similarity_scores(rows, cmp, target) ==
    LET n == Len(cmp)
        scaler == fit(rows, cmp)
        den == Denom(scaler)
        nf == Len(SIMILARITY_FEATURES)
        \* n times the centered target, per feature
        t == [k \in 1..nf |->
                Centered(scaler, n, k, TargetFeature(target, SIMILARITY_FEATURES[k]))]
        \* target_scaled is the zero vector: cosine_similarity gives 0
        target_is_zero == \A k \in 1..nf : t[k] = 0
        x(m) == [k \in 1..nf |->
                    Centered(scaler, n, k, rows[cmp[m]][SIMILARITY_FEATURES[k]])]
        \* den times (target_scaled . comparison_scaled[m])
        dot(m) == SumSeq([k \in 1..nf |->
                    IF scaler[k].var > 0
                    THEN t[k] * x(m)[k] * (den \div scaler[k].var) ELSE 0])
        \* den times |comparison_scaled[m]|^2
        normsq(m) == SumSeq([k \in 1..nf |->
                    IF scaler[k].var > 0
                    THEN x(m)[k] * x(m)[k] * (den \div scaler[k].var) ELSE 0])
    IN  [m \in 1..n |->
            LET d == dot(m)
                q == normsq(m)
            IN  IF target_is_zero \/ q = 0 \/ d = 0
                THEN [sgn |-> 0, num |-> 0, den |-> 1]
                ELSE [sgn |-> IF d > 0 THEN 1 ELSE -1, num |-> d * d, den |-> q]]

\* p/q against r/s (p, r >= 0; q, s > 0): -1, 0 or 1, by Euclid's algorithm,
\* so that no product is formed.
RECURSIVE CmpFrac(_, _, _, _)
CmpFrac(p, q, r, s) ==
    LET a == p \div q
        b == r \div s
        pr == p % q
        rr == r % s
    IN  IF a # b THEN (IF a < b THEN -1 ELSE 1)
        ELSE IF pr = 0 /\ rr = 0 THEN 0
        ELSE IF pr = 0 THEN -1
        ELSE IF rr = 0 THEN 1
        ELSE CmpFrac(s, rr, q, pr)

CmpSimilarity(x, y) ==
    IF x.sgn # y.sgn THEN (IF x.sgn < y.sgn THEN -1 ELSE 1)
    ELSE IF x.sgn = 0 THEN 0
    ELSE IF x.sgn > 0 THEN CmpFrac(x.num, x.den, y.num, y.den)
    ELSE CmpFrac(y.num, y.den, x.num, x.den)

SortedFirstAscending(rows, cmp, target) ==
    LET sim == similarity_scores(rows, cmp, target)
    IN  { cmp[k] : k \in { k \in 1..Len(cmp) :
            \A m \in 1..Len(cmp) : CmpSimilarity(sim[k], sim[m]) <= 0 } }

\* Lines 202-203: sort_values(by='Similarity', ascending=False).iloc[0].  The
\* sort is pandas' default, quicksort, which is not stable: among rows of
\* equal score any one can come first.
SortedFirst(rows, cmp, target) ==
    LET sim == similarity_scores(rows, cmp, target)
    IN  { cmp[k] : k \in { k \in 1..Len(cmp) :
            \A m \in 1..Len(cmp) : CmpSimilarity(sim[k], sim[m]) >= 0 } }

---------------------------------------------------------------------------
(* get_closest_match: the function *)

\* One execution: what is returned (or that an exception left the function),
\* the rows that were scored, and the row picked.
Returned(ret, cmp, best) == [raised |-> FALSE, ret |-> ret, comparison |-> cmp, best |-> best]
Raised == [raised |-> TRUE, ret |-> NoReturn, comparison |-> <<>>, best |-> 0]
NotCalled == [raised |-> FALSE, ret |-> NoReturn, comparison |-> <<>>, best |-> 0]

PopulationUnusableEmptyOnly(df) == ~df.none /\ Len(df.rows) = 0

PopulationUnusableNoneOnly(df) == df.none

\* Line 168: all_players_df is None or all_players_df.empty
PopulationUnusable(df) == df.none \/ Len(df.rows) = 0

\* get_closest_match(target_stats_dict, current_season) from line 168 on, df
\* being what get_all_player_stats returned: the executions it can have.
get_closest_match(target, df) ==
    IF PopulationUnusable(df)
    THEN {Returned(MODEL_FAILED, <<>>, 0)}
    ELSE IF df.none \/ StrAccessorRaises(df.rows)
    THEN {Raised}
    ELSE LET cmp == comparison_df(df.rows, target)
         IN  IF cmp = <<>>
             THEN {Returned(NO_QUALIFIED, <<>>, 0)}
             ELSE { Returned(MatchText(df.rows[b].PLAYER_NAME), cmp, b) :
                        b \in SortedFirst(df.rows, cmp, target) }

---------------------------------------------------------------------------
(* The Stats Provider: the data the nba_api endpoints answer with.          *)
(* A small fixed league, chosen so that every branch of the handlers runs. *)

Guard   == <<"G", "u", "a", "r", "d">>
Forward == <<"F", "o", "r", "w", "a", "r", "d">>
Center  == <<"C", "e", "n", "t", "e", "r">>

\* players.get_players(): the static list of players.
StaticPlayers ==
    << [id |-> 201935, full_name |-> "James Harden"],
       [id |-> 1630001, full_name |-> "Rookie Center"],
       [id |-> 1620002, full_name |-> "Journeyman Forward"] >>

\* str.lower() on the names that are typed or listed.
LowerName(name) ==
    CASE name = "James Harden" -> "james harden"
      [] name = "JAMES HARDEN" -> "james harden"
      [] name = "Rookie Center" -> "rookie center"
      [] name = "Journeyman Forward" -> "journeyman forward"
      [] name = "Nobody Known" -> "nobody known"
      [] OTHER -> name

\* commonplayerinfo.CommonPlayerInfo(player_id).get_data_frames()[0], row 0
CommonPlayerInfo(player_id) ==
    CASE player_id = 201935 ->
            [DISPLAY_FIRST_LAST |-> "James Harden", POSITION |-> Guard,
             TEAM_ABBREVIATION |-> "LAC", TEAM_NAME |-> "Clippers"]
      [] player_id = 1630001 ->
            [DISPLAY_FIRST_LAST |-> "Rookie Center", POSITION |-> Center,
             TEAM_ABBREVIATION |-> "DEN", TEAM_NAME |-> "Nuggets"]
      [] OTHER ->
            [DISPLAY_FIRST_LAST |-> "Journeyman Forward", POSITION |-> Forward,
             TEAM_ABBREVIATION |-> "NYK", TEAM_NAME |-> "Knicks"]

CareerRow(season, team, gp, pts, reb, ast, stl, blk, fg, ft, fta, min) ==
    [SEASON_ID |-> season, TEAM_ABBREVIATION |-> team, GP |-> gp, PTS |-> pts,
     REB |-> reb, AST |-> ast, STL |-> stl, BLK |-> blk, FG_PCT |-> fg,
     FT_PCT |-> ft, FTA |-> fta, MIN |-> min]

\* playercareerstats.PlayerCareerStats(player_id).get_data_frames()[0]:
\* season totals, one row per season and team, a TOT row after a trade.
PlayerCareerStats(player_id) ==
    CASE player_id = 201935 ->
            << CareerRow("2018-19", "HOU", 78, 2818, 518, 586, 158, 58, 442, 879, 858, 2867),
               CareerRow("2023-24", "LAC", 72, 1195, 370, 614, 77, 59, 428, 878, 322, 2470) >>
      [] player_id = 1630001 ->
            << CareerRow("2018-19", "DEN", 80, 1040, 865, 580, 108, 55, 511, 821, 352, 2504),
               CareerRow("2023-24", "DEN", 0, 0, 0, 0, 0, 0, 0, 0, 0, 0) >>
      [] OTHER ->
            << CareerRow("2018-19", "DAL", 30, 240, 150, 45, 20, 12, 450, 700, 60, 600),
               CareerRow("2018-19", "NYK", 20, 100, 70, 20, 10, 6, 400, 650, 30, 300),
               CareerRow("2018-19", "TOT", 50, 340, 220, 65, 30, 18, 430, 680, 90, 900),
               CareerRow("2023-24", "NYK", 40, 220, 200, 40, 20, 10, 440, 710, 50, 640) >>

\* playerawards.PlayerAwards(player_id).get_data_frames()[0]
PlayerAwards(player_id) ==
    IF player_id = 201935
    THEN << [DESCRIPTION |-> "NBA Most Valuable Player", SEASON |-> <<"2017", "-18">>] >>
    ELSE <<>>

LeagueRow(name, id, position, pts, reb, ast, stl, blk, fg, ft) ==
    [PLAYER_NAME |-> name, PLAYER_ID |-> id, PLAYER_POSITION |-> position,
     PTS |-> pts, REB |-> reb, AST |-> ast, STL |-> stl, BLK |-> blk,
     FG_PCT |-> fg, FT_PCT |-> ft]

\* Tables the league endpoint can hold: none at all, rows without any
\* position, and a table with guards and a center.
LeagueTables ==
    { <<>>,
      << LeagueRow("Unlisted One", 11, PosNone, 120, 40, 30, 10, 5, 450, 800) >>,
      << LeagueRow("James Harden", 201935, PosStr(<<"G">>), 166, 51, 85, 11, 8, 428, 878),
         LeagueRow("Stephen Curry", 201939, PosStr(<<"G">>), 264, 45, 51, 7, 4, 450, 923),
         LeagueRow("Devin Booker", 1626164, PosStr(<<"G">>), 271, 45, 51, 7, 4, 450, 923),
         LeagueRow("Bench Guard", 12, PosStr(<<"G">>), 31, 12, 10, 3, 1, 401, 700),
         LeagueRow("Nikola Jokic", 203999, PosStr(<<"C">>), 264, 124, 90, 14, 9, 583, 817),
         LeagueRow("Unlisted Two", 13, PosNone, 90, 30, 20, 5, 2, 440, 760) >> }

\* LeagueDashPlayerStats(season=..., season_type_all_star='Regular Season'):
\* the call raises, or answers with a table of the season asked for.
LeagueDashPlayerStats(season) ==
    {Response(TRUE, season, <<>>)} \cup {Response(FALSE, season, t) : t \in LeagueTables}

---------------------------------------------------------------------------
(* get_player_id, get_precise_positions, get_player_report *)

\* None is 0: "if not player_id" treats both alike.
get_player_id(player_name) ==
    LET hits == SelectSeq(StaticPlayers,
                   LAMBDA pl : LowerName(pl.full_name) = LowerName(player_name))
    IN  IF hits = <<>> THEN 0 ELSE hits[1].id

\* The list that ", ".join(...) writes out; an unmapped label stays as it is.
get_precise_positions(generic_position) ==
    CASE generic_position = Guard -> <<"PG", "SG">>
      [] generic_position = Forward -> <<"SF", "PF">>
      [] generic_position = Center -> <<"C">>
      [] OTHER -> <<"(as given)">>

ErrorReport(msg) ==
    [error |-> msg, name |-> "", team_abbr |-> <<>>, team_full |-> <<>>,
     status |-> "", position |-> <<>>, precise_positions |-> <<>>,
     pts |-> NA, reb |-> NA, ast |-> NA, stl |-> NA, blk |-> NA,
     fg_pct_raw |-> PyNum(0), ft_pct_raw |-> PyNum(0),
     fg_pct |-> NA, ft_pct |-> NA, fta_per_game |-> NA, min_per_game |-> NA,
     contract_year |-> "", salary |-> "", season |-> "",
     awards |-> <<>>]

\* Lines 111-132: the per-game fields from the season's last row.
PerGameFields(avg_stats, season) ==
    LET total_gp == avg_stats.GP
    IN  [pts |-> PyNum(RoundDiv(avg_stats.PTS * Scale, total_gp)),
         reb |-> PyNum(RoundDiv(avg_stats.REB * Scale, total_gp)),
         ast |-> PyNum(RoundDiv(avg_stats.AST * Scale, total_gp)),
         stl |-> PyNum(RoundDiv(avg_stats.STL * Scale, total_gp)),
         blk |-> PyNum(RoundDiv(avg_stats.BLK * Scale, total_gp)),
         fg_pct_raw |-> PyNum(avg_stats.FG_PCT),
         ft_pct_raw |-> PyNum(avg_stats.FT_PCT),
         fg_pct |-> PyNum(RoundDiv(avg_stats.FG_PCT * 100 * Scale, PctScale)),
         ft_pct |-> PyNum(RoundDiv(avg_stats.FT_PCT * 100 * Scale, PctScale)),
         fta_per_game |-> PyNum(RoundDiv(avg_stats.FTA * Scale, total_gp)),
         min_per_game |-> PyNum(RoundDiv(avg_stats.MIN * Scale, total_gp)),
         contract_year |-> "not available from the data source",
         salary |-> "not available from the data source",
         season |-> season]

\* Lines 134-140: the fields of a season without data.
NoDataFields(season) ==
    [pts |-> NA, reb |-> NA, ast |-> NA, stl |-> NA, blk |-> NA,
     fg_pct_raw |-> PyNum(0), ft_pct_raw |-> PyNum(0),
     fg_pct |-> NA, ft_pct |-> NA, fta_per_game |-> NA,
     min_per_game |-> NA, contract_year |-> "N/A", salary |-> "N/A",
     season |-> "no " \o season \o " season data"]

SeasonFieldsIgnoringGames(season_stats, season) ==
    IF season_stats # <<>>
    THEN LET last == season_stats[Len(season_stats)]
         IN  PerGameFields([last EXCEPT !.GP = IF @ > 0 THEN @ ELSE 1], season)
    ELSE NoDataFields(season)

\* Lines 110-140: the season part of the report.
SeasonFields(season_stats, season) ==
    IF season_stats # <<>> /\ season_stats[Len(season_stats)].GP > 0
    THEN PerGameFields(season_stats[Len(season_stats)], season)
    ELSE NoDataFields(season)

\* Lines 92-103: team_abbr (the list that is joined) and team_full.
TeamFields(season_stats, info) ==
    IF season_stats # <<>>
    THEN LET team_abbr_list == [i \in 1..Len(season_stats) |-> season_stats[i].TEAM_ABBREVIATION]
         IN  IF \E i \in 1..Len(team_abbr_list) : team_abbr_list[i] = "TOT"
             THEN LET abbrs == SelectSeq(team_abbr_list, LAMBDA a : a # "TOT")
                  IN  [team_abbr |-> abbrs, team_full |-> <<"multiple teams">> \o abbrs]
             ELSE [team_abbr |-> <<team_abbr_list[1]>>, team_full |-> <<team_abbr_list[1]>>]
    ELSE [team_abbr |-> <<info.TEAM_ABBREVIATION>>, team_full |-> <<info.TEAM_NAME>>]

\* api_ok: none of the three endpoint calls raised.
get_player_report(player_name, season, api_ok) ==
    LET player_id == get_player_id(player_name)
    IN  IF player_id = 0
        THEN ErrorReport("player not found: " \o player_name)
        ELSE IF ~api_ok
        THEN ErrorReport("data processing failed, maybe no data in season " \o season)
        ELSE LET info == CommonPlayerInfo(player_id)
                 stats_data == PlayerCareerStats(player_id)
                 season_stats == SelectSeq(stats_data, LAMBDA r : r.SEASON_ID = season)
                 awards_df == PlayerAwards(player_id)
                 team == TeamFields(season_stats, info)
                 sf == SeasonFields(season_stats, season)
             IN  [error |-> "", name |-> info.DISPLAY_FIRST_LAST,
                  team_abbr |-> team.team_abbr, team_full |-> team.team_full,
                  status |-> "Healthy (Active)", position |-> info.POSITION,
                  precise_positions |-> get_precise_positions(info.POSITION),
                  pts |-> sf.pts, reb |-> sf.reb, ast |-> sf.ast, stl |-> sf.stl,
                  blk |-> sf.blk, fg_pct_raw |-> sf.fg_pct_raw,
                  ft_pct_raw |-> sf.ft_pct_raw, fg_pct |-> sf.fg_pct,
                  ft_pct |-> sf.ft_pct, fta_per_game |-> sf.fta_per_game,
                  min_per_game |-> sf.min_per_game,
                  contract_year |-> sf.contract_year, salary |-> sf.salary,
                  season |-> sf.season,
                  awards |-> [i \in 1..Len(awards_df) |->
                                 <<awards_df[i].DESCRIPTION, awards_df[i].SEASON[1]>>]]

---------------------------------------------------------------------------
(* format_report_markdown_streamlit *)

DB_UNREACHABLE == "database unreachable for now, similar style: "
DB_TOO_SMALL == "database too small, similar style: "
NO_COMPARISON == [tag |-> "insufficient data, no comparison possible", name |-> ""]

ErrorMarkdown(data) ==
    [error |-> data.error, data |-> data, style_analysis |-> NoStyle,
     comparison_result |-> NoReturn, awards_list_md |-> <<>>]

ReportMarkdown(data, style_analysis, comparison_result) ==
    [error |-> "", data |-> data, style_analysis |-> style_analysis,
     comparison_result |-> comparison_result,
     awards_list_md |-> IF data.awards = <<>>
                        THEN << <<"no official NBA award on record", "">> >>
                        ELSE data.awards]

FallbackSwapped(ret, style_analysis) ==
    IF ret = MODEL_FAILED
    THEN [tag |-> DB_TOO_SMALL \o style_analysis.core_style, name |-> ""]
    ELSE IF ret = NO_QUALIFIED
    THEN [tag |-> DB_UNREACHABLE \o style_analysis.core_style, name |-> ""]
    ELSE ret

\* Lines 252-257: the text shown for what get_closest_match returned.
Fallback(ret, style_analysis) ==
    IF ret = MODEL_FAILED
    THEN [tag |-> DB_UNREACHABLE \o style_analysis.core_style, name |-> ""]
    ELSE IF ret = NO_QUALIFIED
    THEN [tag |-> DB_TOO_SMALL \o style_analysis.core_style, name |-> ""]
    ELSE ret

\* Lines 242 and 248: the report is no error report and has numbers.
NeedsComparison(data) == data.error = "" /\ data.pts # NA

\* The executions of format_report_markdown_streamlit(data), df being what
\* get_all_player_stats gives when it is asked: the text returned, or the
\* exception of get_closest_match passing through (crashed), and the call of
\* get_closest_match made.
format_report_markdown_streamlit(data, df) ==
    IF data.error # ""
    THEN {[crashed |-> FALSE, markdown |-> ErrorMarkdown(data), call |-> NotCalled,
           called |-> FALSE]}
    ELSE LET style_analysis == analyze_style(data)
         IN  IF NeedsComparison(data)
             THEN { [crashed |-> c.raised,
                     markdown |-> ReportMarkdown(data, style_analysis,
                                                 Fallback(c.ret, style_analysis)),
                     call |-> c, called |-> TRUE] : c \in get_closest_match(data, df) }
             ELSE {[crashed |-> FALSE,
                    markdown |-> ReportMarkdown(data, style_analysis, NO_COMPARISON),
                    call |-> NotCalled, called |-> FALSE]}

---------------------------------------------------------------------------
(* The app: the button handler, the cache of get_all_player_stats *)

Seasons == {"2018-19", "2023-24", "2030-31"}

NameInputs == {"James Harden", "JAMES HARDEN", "Rookie Center",
               "Journeyman Forward", "Nobody Known"}

Miss == [hit |-> FALSE, df |-> None_df]
Hit(df) == [hit |-> TRUE, df |-> df]

NoMarkdown == ErrorMarkdown(ErrorReport(""))

EmptySession ==
    [has_report |-> FALSE, report |-> NoMarkdown, player_name |-> "", season_input |-> ""]

NoRun ==
    [kind |-> "none", player_name_input |-> "", season_input |-> "",
     api_ok |-> TRUE, report_data |-> ErrorReport(""), called |-> FALSE,
     call |-> NotCalled, df |-> None_df, from_cache |-> FALSE]

AppIdle == cache = [s \in Seasons |-> Miss] /\ session_state = EmptySession /\ run = NoRun

\* Lines 315-324: the button is pressed with a name typed in.
\* get_player_report, then format_report_markdown_streamlit; get_closest_match
\* asks get_all_player_stats(data['season']), which st.cache_data answers from
\* the cache or by running the body and keeping what it returned (None too).
\* An exception out of get_closest_match leaves the handler before
\* session_state is written.
GenerateReport ==
    \E player_name_input \in NameInputs, season_input \in Seasons :
      \E api_ok \in IF get_player_id(player_name_input) = 0 THEN {TRUE} ELSE BOOLEAN :
        LET report_data == get_player_report(player_name_input, season_input, api_ok)
            asks == NeedsComparison(report_data)
            key == IF asks THEN report_data.season ELSE season_input
            fetches == asks /\ ~cache[key].hit
        IN  \E response \in IF fetches THEN LeagueDashPlayerStats(RequestedSeason(key))
                            ELSE {Response(TRUE, "", <<>>)} :
                LET df == IF cache[key].hit THEN cache[key].df
                          ELSE get_all_player_stats_body(response)
                IN  \E out \in format_report_markdown_streamlit(report_data, df) :
                        /\ cache' = IF out.called THEN [cache EXCEPT ![key] = Hit(df)]
                                    ELSE cache
                        /\ session_state' =
                               IF out.crashed THEN session_state
                               ELSE [has_report |-> TRUE, report |-> out.markdown,
                                     player_name |-> player_name_input,
                                     season_input |-> season_input]
                        /\ run' = [kind |-> IF out.crashed THEN "crash" ELSE "report",
                                   player_name_input |-> player_name_input,
                                   season_input |-> season_input,
                                   api_ok |-> api_ok,
                                   report_data |-> report_data,
                                   called |-> out.called, call |-> out.call,
                                   df |-> IF out.called THEN df ELSE None_df,
                                   from_cache |-> out.called /\ cache[key].hit]
                        /\ UNCHANGED <<matchVars, styleVars>>

\* Lines 325-326: the button is pressed with no name: st.warning.
EmptyNameWarning ==
    /\ run' = [NoRun EXCEPT !.kind = "warning"]
    /\ UNCHANGED <<cache, session_state, matchVars, styleVars>>

\* Line 25: ttl=3600*24: an entry of the cache expires.
CacheExpire ==
    \E s \in Seasons :
        /\ cache[s].hit
        /\ cache' = [cache EXCEPT ![s] = Miss]
        /\ UNCHANGED <<session_state, run, matchVars, styleVars>>

---------------------------------------------------------------------------
(* get_closest_match on its own: targets and populations drawn from bounded *)
(* sets                                                                    *)

MaxPopulation == 3

Target(name, position, pts, reb, ast, stl, blk, fg, ft) ==
    [name |-> name, position |-> position, pts |-> PyNum(pts), reb |-> PyNum(reb),
     ast |-> PyNum(ast), stl |-> PyNum(stl), blk |-> PyNum(blk),
     fg_pct_raw |-> PyNum(fg), ft_pct_raw |-> PyNum(ft)]

MatchTargets ==
    { Target("James Harden", Guard, 52, 30, 30, 10, 5, 450, 800),
      Target("Big Man", Center, 51, 31, 29, 10, 5, 450, 800),
      Target("Free Agent", <<>>, 52, 30, 31, 11, 5, 450, 800) }

MatchRows ==
    { LeagueRow("James Harden", 1, PosStr(<<"G">>), 52, 30, 31, 10, 5, 450, 800),
      LeagueRow("Peer A", 2, PosStr(<<"G">>), 51, 30, 30, 10, 5, 450, 800),
      LeagueRow("Peer B", 3, PosStr(<<"G", "-", "F">>), 51, 30, 30, 10, 5, 450, 800),
      LeagueRow("Peer C", 4, PosStr(<<"s", "g">>), 53, 30, 28, 10, 5, 450, 800),
      LeagueRow("Low Scorer", 5, PosStr(<<"G">>), 49, 30, 30, 10, 5, 450, 800),
      LeagueRow("Big Man", 6, PosStr(<<"C">>), 52, 31, 29, 10, 5, 450, 800),
      LeagueRow("No Position", 7, PosNone, 52, 30, 30, 10, 5, 450, 800),
      LeagueRow("Swing Man", 8, PosStr(<<"F", "-", "C">>), 50, 31, 28, 10, 5, 450, 800) }

MatchPopulations ==
    {None_df} \cup
    { get_all_player_stats_body(Response(FALSE, BASELINE_SEASON, rows)) :
        rows \in UNION { [1..n -> MatchRows] : n \in 0..MaxPopulation } }

Pending == [raised |-> FALSE, ret |-> [tag |-> "PENDING", name |-> ""],
            comparison |-> <<>>, best |-> 0]

MatchIdle ==
    /\ target_stats_dict = Target("", <<>>, 0, 0, 0, 0, 0, 0, 0)
    /\ all_players_df = None_df
    /\ closest = Pending

CallGetClosestMatch ==
    /\ closest = Pending
    /\ closest' \in get_closest_match(target_stats_dict, all_players_df)
    /\ UNCHANGED <<target_stats_dict, all_players_df, appVars, styleVars>>

---------------------------------------------------------------------------
(* analyze_style on its own *)

StyleNumbers == {-10, 0, 59, 60, 79, 80, 99, 100, 149, 150, 249, 250, 300}

StyleInputs ==
    LET vals == {PyNum(v) : v \in StyleNumbers} \cup {NA}
    IN  { [pts |-> p, ast |-> a, reb |-> r] : p \in vals, a \in vals, r \in vals }

StyleIdle ==
    /\ stats = [pts |-> NA, ast |-> NA, reb |-> NA]
    /\ style = NoStyle
    /\ nb_style = NoStyle

CallAnalyzeStyle ==
    /\ style = NoStyle
    /\ style' = analyze_style(stats)
    /\ nb_style' = nba_app_analyze_style(stats)
    /\ UNCHANGED <<stats, appVars, matchVars>>

---------------------------------------------------------------------------
(* Specifications *)

Init == AppIdle /\ MatchIdle /\ StyleIdle
Next == GenerateReport \/ EmptyNameWarning \/ CacheExpire
Spec == Init /\ [][Next]_vars

InitMatch ==
    /\ AppIdle /\ StyleIdle
    /\ target_stats_dict \in MatchTargets
    /\ all_players_df \in MatchPopulations
    /\ closest = Pending
NextMatch == CallGetClosestMatch
SpecMatch == InitMatch /\ [][NextMatch]_vars

InitStyle ==
    /\ AppIdle /\ MatchIdle
    /\ stats \in StyleInputs
    /\ style = NoStyle
    /\ nb_style = NoStyle
NextStyle == CallAnalyzeStyle
SpecStyle == InitStyle /\ [][NextStyle]_vars

---------------------------------------------------------------------------
(* Properties *)

StyleNumeric == stats.pts.t = "num" /\ stats.ast.t = "num" /\ stats.reb.t = "num"

\* The label a numeric triple must get, rule by rule, role being the label of
\* the last rule.
LabelAsClaimed(label, role) ==
    LET pts == stats.pts.n
        ast == stats.ast.n
        reb == stats.reb.n
        r1 == pts >= 25 * Scale /\ ast >= 6 * Scale /\ reb >= 6 * Scale
        r2 == pts >= 25 * Scale
        r3 == ast >= 8 * Scale /\ pts >= 15 * Scale
        r4 == reb >= 10 * Scale /\ pts < 15 * Scale
    IN  /\ label \in {ELITE, VOLUME, PLAYMAKER, ANCHOR, role}
        /\ (label = ELITE) <=> r1
        /\ (label = VOLUME) <=> (~r1 /\ r2)
        /\ (label = PLAYMAKER) <=> (~r1 /\ ~r2 /\ r3)
        /\ (label = ANCHOR) <=> (~r1 /\ ~r2 /\ ~r3 /\ r4)
        /\ (label = role) <=> (~r1 /\ ~r2 /\ ~r3 /\ ~r4)

\* C1: analyze_style is total and priority-ordered: every numeric triple
\* (pts, ast, reb), zero and negative values included, gets exactly one of
\* the five labels, the one of the first rule that matches, in both source
\* files.
C1_StylePriorityOrder ==
    (style # NoStyle /\ StyleNumeric) =>
        /\ LabelAsClaimed(style.core_style, ROLE_PLAYER)
        /\ LabelAsClaimed(nb_style.core_style, NB_ROLE_PLAYER)

\* A triple that matches rules 1, 2 and 3 at once has been labelled by rule 1.
C1_Witness ==
    /\ stats = [pts |-> PyNum(250), ast |-> PyNum(80), reb |-> PyNum(60)]
    /\ style.core_style = ELITE

Called == closest # Pending
IsMatch == Called /\ ~closest.raised /\ closest.ret.tag = "MATCH"
IsUnavailable == Called /\ ~closest.raised /\ closest.ret \in {MODEL_FAILED, NO_QUALIFIED}
PopRows == all_players_df.rows

\* C2: get_closest_match never returns a Match whose player name equals the
\* target's name, also when the target is in the population.
C2_SelfExclusion ==
    IsMatch => closest.ret.name # target_stats_dict.name

\* A Match was returned from a population that holds the target itself, with
\* a matching position and enough points.
C2_Witness ==
    /\ IsMatch
    /\ \E i \in 1..Len(PopRows) :
          /\ PopRows[i].PLAYER_NAME = target_stats_dict.name
          /\ PopRows[i].PLAYER_POSITION = PosStr(<<"G">>)
          /\ PopRows[i].PTS >= 5 * Scale

\* C3: the player named in a returned Match is a row of the population with
\* PTS >= 5.0; no row with fewer points is selected.
C3_ProductionFloor ==
    IsMatch =>
        /\ closest.best \in 1..Len(PopRows)
        /\ PopRows[closest.best].PLAYER_NAME = closest.ret.name
        /\ PopRows[closest.best].PTS >= 5 * Scale

\* A Match was returned from a population that holds a row of the target's
\* position, of another name, with fewer than 5 points.
C3_Witness ==
    /\ IsMatch
    /\ target_stats_dict.position = Guard
    /\ \E i \in 1..Len(PopRows) :
          /\ PopRows[i].PLAYER_NAME = "Low Scorer"
          /\ PopRows[i].PTS < 5 * Scale

\* C4: when the league fetch failed (get_all_player_stats gave None) or the
\* table is empty, get_closest_match returns an Unavailable result and raises
\* nothing, whatever target reaches it.
C4_UnavailableNeverRaises ==
    (run.called /\ (run.df.none \/ Len(run.df.rows) = 0)) =>
        /\ ~run.call.raised
        /\ run.call.ret \in {MODEL_FAILED, NO_QUALIFIED}
        /\ run.kind = "report"

\* get_closest_match was called after a failed fetch.
C4_Witness ==
    /\ run.called
    /\ run.df.none
    /\ ~run.from_cache
    /\ run.call.ret = MODEL_FAILED

\* C5: whenever get_closest_match returns Unavailable, for either reason, the
\* handler still shows a full report, not an error report, whose
\* comparable-player field is the style label of analyze_style with the
\* reason that was returned (unreachable, or too small after filtering).
C5_FallbackPolicy ==
    (run.called /\ ~run.call.raised /\ run.call.ret \in {MODEL_FAILED, NO_QUALIFIED}) =>
        /\ run.kind = "report"
        /\ session_state.has_report
        /\ session_state.report.error = ""
        /\ session_state.report.data = run.report_data
        /\ session_state.report.style_analysis.core_style
              \in {ELITE, VOLUME, PLAYMAKER, ANCHOR, ROLE_PLAYER}
        /\ session_state.report.comparison_result.tag =
              (IF run.call.ret = MODEL_FAILED THEN DB_UNREACHABLE ELSE DB_TOO_SMALL)
              \o session_state.report.style_analysis.core_style

\* The population was there and no row was left after filtering.
C5_Witness ==
    /\ run.called
    /\ run.call.ret = NO_QUALIFIED
    /\ Len(run.df.rows) > 0
    /\ session_state.report.comparison_result.tag = DB_TOO_SMALL \o ROLE_PLAYER

\* The rows of the requested season in the career table of the player typed.
RunSeasonRows ==
    SelectSeq(PlayerCareerStats(get_player_id(run.player_name_input)),
              LAMBDA r : r.SEASON_ID = run.season_input)

\* The player was found, the endpoints answered, and the season has no row or
\* no game played.
RunNoSeasonData ==
    /\ run.kind \in {"report", "crash"}
    /\ get_player_id(run.player_name_input) # 0
    /\ run.api_ok
    /\ \/ RunSeasonRows = <<>>
       \/ RunSeasonRows[Len(RunSeasonRows)].GP = 0

\* C6: when the player is found but has no row, or zero games played, in the
\* requested season, get_player_report returns a report, not an error, whose
\* stat fields are 'N/A'; the report is rendered without get_closest_match
\* being called and without aborting, and its style is the "insufficient
\* data" label.
C6_NoSeasonData ==
    RunNoSeasonData =>
        /\ run.report_data.error = ""
        /\ \A v \in { run.report_data.pts, run.report_data.reb, run.report_data.ast,
                      run.report_data.stl, run.report_data.blk, run.report_data.fg_pct,
                      run.report_data.ft_pct, run.report_data.fta_per_game,
                      run.report_data.min_per_game } : v = PyStr("N/A")
        /\ ~run.called
        /\ run.kind = "report"
        /\ session_state.report.error = ""
        /\ session_state.report.data = run.report_data
        /\ session_state.report.style_analysis.core_style = INSUFFICIENT

\* A season row with zero games played was reported.
C6_Witness ==
    /\ RunNoSeasonData
    /\ RunSeasonRows # <<>>
    /\ session_state.report.data.name = "Rookie Center"

\* C7: the population a target is scored against is the league table of the
\* season of the target's stat line, for every sequence of queries, cached
\* or not.
C7_SameSeasonPopulation ==
    (run.called /\ ~run.df.none) => run.df.season = run.report_data.season

\* The scores of the rows of comparison_df for the call made.
ClosestScores ==
    similarity_scores(PopRows, closest.comparison, target_stats_dict)

\* The place in comparison_df of the row picked.
BestPlace ==
    CHOOSE k \in 1..Len(closest.comparison) : closest.comparison[k] = closest.best

\* The first place in comparison_df, in the order of the population, of a row
\* with the maximum score.
FirstMaximalPlace ==
    CHOOSE k \in 1..Len(closest.comparison) :
        /\ \A m \in 1..Len(closest.comparison) :
              CmpSimilarity(ClosestScores[k], ClosestScores[m]) >= 0
        /\ \A m \in 1..(k - 1) :
              CmpSimilarity(ClosestScores[k], ClosestScores[m]) > 0

Survives(row) ==
    /\ row.PLAYER_POSITION.t = "str"
    /\ \/ target_stats_dict.position = <<>>
       \/ \E j \in 1..Len(row.PLAYER_POSITION.c) :
             Lower(row.PLAYER_POSITION.c[j]) = Lower(target_stats_dict.position[1])
    /\ row.PLAYER_NAME # target_stats_dict.name
    /\ row.PTS >= 5 * Scale

Survivors == IF all_players_df.none THEN {} ELSE { i \in 1..Len(PopRows) : Survives(PopRows[i]) }

\* C9: the rows get_closest_match scores are exactly the rows of the
\* population whose position string holds, in either case, the first
\* character of the target's position label (a missing position drops the
\* row), less the rows of the target's name and of fewer than 5 points; no
\* other row is scored or returned.  (A target with an empty position label
\* has no first character: the claim is about the others.)
C9_PositionFilter ==
    (Called /\ ~closest.raised /\ target_stats_dict.position # <<>>) =>
        /\ { closest.comparison[k] : k \in 1..Len(closest.comparison) } = Survivors
        /\ IsMatch => closest.best \in Survivors

\* A Match from a population where a lower-case position matched, and a row
\* without position and a row of another position were dropped.
C9_Witness ==
    /\ IsMatch
    /\ target_stats_dict.position = Guard
    /\ closest.ret.name = "Peer C"
    /\ \E i \in 1..Len(PopRows) : PopRows[i].PLAYER_POSITION.t = "int"
    /\ \E i \in 1..Len(PopRows) : PopRows[i].PLAYER_POSITION = PosStr(<<"C">>)

\* C10: every call of get_closest_match ends in one of two ways: a Match
\* naming a surviving row when the population is there and a row survives
\* the filters (with one survivor, that one), Unavailable otherwise; nothing
\* else happens.
C10_TwoVariants ==
    Called =>
        /\ ~closest.raised
        /\ IF Survivors # {}
           THEN /\ closest.ret.tag = "MATCH"
                /\ closest.best \in Survivors
                /\ closest.ret.name = PopRows[closest.best].PLAYER_NAME
           ELSE closest.ret \in {MODEL_FAILED, NO_QUALIFIED}

Supplied == ~all_players_df.none

====
